---- MODULE Spec2Model ----
(***************************************************************************)
(* A model of the checkpointed batch-fetch pipeline of                     *)
(* src/src/SteamMarketFetcher.ts (processMarketData, processItems,         *)
(* processBatch) and of src/src/utils/apiUtils.ts (fetchWithRetry,         *)
(* fetchPrice, getAllItemNames).                                           *)
(*                                                                         *)
(* A JavaScript object with string keys is a sequence of <<key, value>>    *)
(* pairs with distinct keys, in insertion order.  Item names are small     *)
(* integers, ordered as the strings they stand for are by .sort().         *)
(***************************************************************************)
EXTENDS Integers, Sequences, FiniteSets, TLC

\* ------------------------------------------------------------- bounds
MaxCatalog == 3
MaxBatch == 2
MaxRetriesArg == 3
MaxDelayArg == 3
MaxMergeKeys == 3
NumEndpoints == 3
MaxListing == 2

\* program constants
MAX_RETRIES == 3
RETRY_DELAY_MS == 5000

ItemNames == {1, 2}
Values == {1, 2}

VARIABLES
    \* persisted state
    stateLastIndex,   \* state file: { lastIndex }
    latest,           \* prices/latest.json: [status, data]
    snapshot,         \* the timestamped snapshot file of this run, written by savePrices
    \* the running process
    pc,
    items,            \* const items = await getAllItemNames()
    batchSize,        \* processItems' batchSize parameter
    startIndex,       \* processItems' startIndex (lastIndex of processMarketData)
    i,                \* processItems' loop variable
    inFlight,         \* indices of the current batch whose promise has not settled
    priceDataByItemHashName,
    failedItems,
    itemsToRetry,
    retryPos,
    orderedNewPrices,
    report,           \* [successCount, failureCount] of the final statistics
    \* history of the run (read by the properties only)
    fetchLog,         \* catalog indices handed to fetchPrice by the batch loop, in order
    retryLog,         \* names handed to fetchPrice by the second pass, in order
    settled,          \* catalog indices whose batch-loop fetch has settled
    gotPrices,        \* names for which some fetch of this run returned prices
    stoppedEarly,     \* the batch loop returned on the time budget
    savedThisRun,     \* saveState was called in this run
    lastBatch,        \* the indices of the batch the last checkpoint was written for
    loadedPrices,     \* what loadPrices returned in this run
    resumedFrom,      \* the lastIndex loadState returned in this run
    loopCompleted,    \* the batch loop ran to the end of the working slice
    gotAt,            \* catalog indices whose batch-loop fetch returned prices
    failedInLoop,     \* names of which a batch-loop fetch returned no prices
    failedInRetry,    \* names of which a second-pass fetch returned no prices
    fetchesSinceSleep, \* fetches started since the last rate-limit sleep, or the start
    readerSaw,        \* what a concurrent reader of latest.json last observed
    \* fetchWithRetry, run on its own
    rPc, rRetries, rDelay, rAttempt, rCalls, rFails, rWaits, rOutcome,
    rLastError,       \* lastError: the number of the call whose error it holds
    rThrown,          \* the error fetchWithRetry threw, by the number of its call
    \* fetchPrice and the processBatch of one item, run on their own
    fPc,
    fName,            \* the market_hash_name fetchPrice is called with
    fResponses,       \* the responses of the attempts so far, in order
    fBody,            \* the prices the operation resolved with
    fResult,          \* what fetchPrice resolved with
    fVia,             \* "operation": the operation's value, "catch": the [] of .catch
    \* getAllItemNames, run on its own
    cPc,
    cEndpoint,        \* the position in endpoints of the for loop
    cListings,        \* what each endpoint visited so far gave
    allItems,
    \* the merge, run on its own
    mPc, mExisting, mNew, mOnce, mTwice

diskVars == <<stateLastIndex, latest>>
procVars == <<pc, items, batchSize, startIndex, i, inFlight, priceDataByItemHashName,
              failedItems, itemsToRetry, retryPos, orderedNewPrices, report, snapshot>>
histVars == <<fetchLog, retryLog, settled, gotPrices, stoppedEarly, savedThisRun,
              lastBatch, loadedPrices, resumedFrom, loopCompleted, gotAt, failedInLoop,
              failedInRetry>>
runVars == <<diskVars, procVars, histVars, fetchesSinceSleep, readerSaw>>
retryVars == <<rPc, rRetries, rDelay, rAttempt, rCalls, rFails, rWaits, rOutcome,
               rLastError, rThrown>>
mergeVars == <<mPc, mExisting, mNew, mOnce, mTwice>>
fetchVars == <<fPc, fName, fResponses, fBody, fResult, fVia>>
catalogVars == <<cPc, cEndpoint, cListings, allItems>>
\* the parts that are run on their own
aloneVars == <<retryVars, mergeVars, fetchVars, catalogVars>>
vars == <<runVars, aloneVars>>

\* ------------------------------------------------------------- objects
SeqsUpTo(S, n) == UNION {[1..k -> S] : k \in 0..n}

Keys(obj) == {obj[k][1] : k \in DOMAIN obj}

HasKey(obj, key) == key \in Keys(obj)

Get(obj, key) == obj[CHOOSE k \in DOMAIN obj : obj[k][1] = key][2]

\* obj[key] = val : an existing key keeps its place, a new key goes last
Put(obj, key, val) ==
    IF HasKey(obj, key)
    THEN [k \in DOMAIN obj |-> IF obj[k][1] = key THEN <<key, val>> ELSE obj[k]]
    ELSE Append(obj, <<key, val>>)

\* { ...a, ...b }
RECURSIVE Spread(_, _)
Spread(a, b) ==
    IF b = <<>> THEN a ELSE Spread(Put(a, b[1][1], b[1][2]), Tail(b))

\* a faulty spread: a key of both objects gets the sum of the two values
RECURSIVE SpreadAdding(_, _)
SpreadAdding(a, b) ==
    IF b = <<>> THEN a
    ELSE SpreadAdding(Put(a, b[1][1],
                          IF HasKey(a, b[1][1]) THEN Get(a, b[1][1]) + b[1][2] ELSE b[1][2]),
                      Tail(b))

\* a faulty spread: only the new results are kept
SpreadDroppingOld(a, b) == b

SpreadPrices(prices, new) == Spread(prices, new)

\* Object.keys(o).sort()
RECURSIVE SortedKeys(_)
SortedKeys(S) ==
    IF S = {} THEN <<>>
    ELSE LET m == CHOOSE x \in S : \A y \in S : x <= y
         IN <<m>> \o SortedKeys(S \ {m})

\* .sort().reduce((acc, key) => { acc[key] = o[key]; return acc }, {})
OrderByKey(obj) ==
    LET ks == SortedKeys(Keys(obj))
    IN [k \in 1..Len(ks) |-> <<ks[k], Get(obj, ks[k])>>]

\* orderedNewPrices of processMarketData
MergePrices(prices, new) == OrderByKey(SpreadPrices(prices, new))

IsObject(obj) == \A j, k \in DOMAIN obj : obj[j][1] = obj[k][1] => j = k

IsSortedObject(obj) == \A j, k \in DOMAIN obj : j < k => obj[j][1] < obj[k][1]

\* the objects with keys among names
ObjectsOver(names) ==
    {o \in SeqsUpTo(names \X Values, Cardinality(names)) : IsObject(o)}

SortedObjectsOver(names) == {o \in ObjectsOver(names) : IsSortedObject(o)}

Includes(seq, x) == \E k \in DOMAIN seq : seq[k] = x

Range(seq) == {seq[k] : k \in DOMAIN seq}

\* items.slice(from, to), zero-based, to exclusive, as the zero-based indices it takes
SliceIndices(len, from, to) == {k \in 0..(len - 1) : from <= k /\ k < to}

Min(a, b) == IF a < b THEN a ELSE b

\* ------------------------------------------------------------- persisted state
\* loadState().lastIndex || 0
LoadStateLastIndex == stateLastIndex

\* loadPrices(): a missing store is an empty one
LoadPrices == IF latest.status = "missing" THEN <<>> ELSE latest.data

\* a faulty variant: the cursor is clamped to the catalog instead of wrapped
ResumeIndexNoWrap(lastIndex, n) == Min(lastIndex, n - 1)

\* (state.lastIndex || 0) % items.length
ResumeIndex(lastIndex, n) == lastIndex % n

\* the cursor saved after a batch
NextCursor(start, offset, size) == start + offset + size

\* a faulty variant: the index within the working slice is saved
StopCursorInSlice(start, offset) == offset

\* the cursor saved when the time budget stops the loop
StopCursor(start, offset) == start + offset

\* a faulty variant: the cursor is saved without awaiting the batch
BatchEarly(flight) == TRUE

\* await Promise.all(promises): the batch has settled
BatchSettled(flight) == flight = {}

\* ------------------------------------------------------------- one run
Catalogs == SeqsUpTo(ItemNames, MaxCatalog)

Running == pc \notin {"idle", "finished", "aborted", "killed"}

\* items[k] for a zero-based index k
Item(k) == items[k + 1]

InitRun ==
    /\ stateLastIndex = 0
    /\ latest = [status |-> "missing", data |-> <<>>]
    /\ snapshot = <<>>
    /\ pc = "idle"
    /\ items = <<>>
    /\ batchSize = 1
    /\ startIndex = 0
    /\ i = 0
    /\ inFlight = {}
    /\ priceDataByItemHashName = <<>>
    /\ failedItems = <<>>
    /\ itemsToRetry = <<>>
    /\ retryPos = 1
    /\ orderedNewPrices = <<>>
    /\ report = [successCount |-> 0, failureCount |-> 0]
    /\ fetchLog = <<>>
    /\ retryLog = <<>>
    /\ settled = {}
    /\ gotPrices = {}
    /\ stoppedEarly = FALSE
    /\ savedThisRun = FALSE
    /\ lastBatch = {}
    /\ loadedPrices = <<>>
    /\ resumedFrom = 0
    /\ loopCompleted = FALSE
    /\ gotAt = {}
    /\ failedInLoop = {}
    /\ failedInRetry = {}
    /\ fetchesSinceSleep = 0
    /\ readerSaw = "nothing"

\* the memory of a process that has not started or has gone
FreshProcess ==
    /\ snapshot' = <<>>
    /\ items' = <<>>
    /\ batchSize' = 1
    /\ startIndex' = 0
    /\ i' = 0
    /\ inFlight' = {}
    /\ priceDataByItemHashName' = <<>>
    /\ failedItems' = <<>>
    /\ itemsToRetry' = <<>>
    /\ retryPos' = 1
    /\ orderedNewPrices' = <<>>
    /\ report' = [successCount |-> 0, failureCount |-> 0]
    /\ fetchLog' = <<>>
    /\ retryLog' = <<>>
    /\ settled' = {}
    /\ gotPrices' = {}
    /\ stoppedEarly' = FALSE
    /\ savedThisRun' = FALSE
    /\ lastBatch' = {}
    /\ loadedPrices' = <<>>
    /\ resumedFrom' = 0
    /\ loopCompleted' = FALSE
    /\ gotAt' = {}
    /\ failedInLoop' = {}
    /\ failedInRetry' = {}
    /\ fetchesSinceSleep' = 0

\* a new process: the fields of a new SteamMarketFetcher
StartRun ==
    /\ ~Running
    /\ pc' = "resolve"
    /\ FreshProcess
    /\ UNCHANGED <<diskVars, readerSaw, aloneVars>>

\* the catalog indices of items.slice(i, i + batchSize), items being catalog.slice(startIndex)
BatchIndices ==
    {startIndex + k : k \in SliceIndices(Len(items) - startIndex, i, i + batchSize)}

\* the indices start .. stop as an ascending sequence
Ascending(S) == SortedKeys(S)

\* a faulty variant: without the return the run goes on, over no item, to the merge
EmptyCatalogFallsThrough == "merge"

\* if (items.length === 0) { console.error(...); return; }
EmptyCatalogExit == "aborted"

\* getAllItemNames, loadState and the call of processItems
ResolveCatalog ==
    /\ pc = "resolve"
    /\ \E catalog \in Catalogs, size \in 1..MaxBatch :
        /\ items' = catalog
        /\ IF Len(catalog) = 0
           THEN /\ pc' = EmptyCatalogExit
                /\ UNCHANGED <<startIndex, batchSize, resumedFrom>>
           ELSE /\ pc' = "loop"
                /\ startIndex' = ResumeIndex(LoadStateLastIndex, Len(catalog))
                /\ resumedFrom' = LoadStateLastIndex
                /\ batchSize' = size
    /\ i' = 0
    /\ UNCHANGED <<diskVars, snapshot, inFlight, priceDataByItemHashName, failedItems,
                   itemsToRetry, retryPos, orderedNewPrices, report, fetchLog, retryLog,
                   settled, gotPrices, stoppedEarly, savedThisRun, lastBatch,
                   loadedPrices, loopCompleted, gotAt, failedInLoop, failedInRetry,
                   fetchesSinceSleep, readerSaw, aloneVars>>

\* processItems: currentTime - startTime >= maxDuration
TimeBudgetStop ==
    /\ pc = "loop"
    /\ stateLastIndex' = StopCursor(startIndex, i)
    /\ savedThisRun' = TRUE
    /\ stoppedEarly' = TRUE
    /\ pc' = "secondPass"
    /\ UNCHANGED <<latest, snapshot, items, batchSize, startIndex, i, inFlight,
                   priceDataByItemHashName, failedItems, itemsToRetry, retryPos,
                   orderedNewPrices, report, fetchLog, retryLog, settled, gotPrices,
                   lastBatch, loadedPrices, resumedFrom, loopCompleted, gotAt,
                   failedInLoop, failedInRetry, fetchesSinceSleep, readerSaw, aloneVars>>

\* processItems: the batch is sliced and processBatch starts one fetchPrice per item
StartBatch ==
    /\ pc = "loop"
    /\ inFlight' = BatchIndices
    /\ fetchLog' = fetchLog \o Ascending(BatchIndices)
    /\ pc' = "batch"
    /\ fetchesSinceSleep' = fetchesSinceSleep + Cardinality(BatchIndices)
    /\ UNCHANGED <<diskVars, snapshot, items, batchSize, startIndex, i,
                   priceDataByItemHashName, failedItems, itemsToRetry, retryPos,
                   orderedNewPrices, report, retryLog, settled, gotPrices, stoppedEarly,
                   savedThisRun, lastBatch, loadedPrices, resumedFrom, loopCompleted,
                   gotAt, failedInLoop, failedInRetry, readerSaw, aloneVars>>

\* a faulty variant: a name without prices is not recorded
TrackFailedNever(failed, name) == failed

\* processBatch: if (!this.failedItems.includes(name)) this.failedItems.push(name)
TrackFailed(failed, name) == IF Includes(failed, name) THEN failed ELSE Append(failed, name)

\* what fetchPrice resolves to: no prices (also after its retries are exhausted), or
\* prices, of which only their weighted average is kept
FetchResults == {<<>>} \cup {<<v>> : v \in Values}

\* getWeightedAveragePrice(prices)
WeightedAverage(prices) == prices[1]

\* a faulty variant: an empty result is stored as a price of zero
FetchSettlesStoringZero(name, prices) ==
    /\ priceDataByItemHashName' = Put(priceDataByItemHashName, name,
                                      IF Len(prices) > 0 THEN WeightedAverage(prices) ELSE 0)
    /\ gotPrices' = IF Len(prices) > 0 THEN gotPrices \cup {name} ELSE gotPrices
    /\ failedItems' = IF Len(prices) > 0 THEN failedItems ELSE TrackFailed(failedItems, name)

\* processBatch: the .then/.catch of one fetchPrice
FetchSettles(name, prices) ==
    IF Len(prices) > 0
    THEN /\ priceDataByItemHashName' = Put(priceDataByItemHashName, name,
                                           WeightedAverage(prices))
         /\ gotPrices' = gotPrices \cup {name}
         /\ UNCHANGED failedItems
    ELSE /\ failedItems' = TrackFailed(failedItems, name)
         /\ UNCHANGED <<priceDataByItemHashName, gotPrices>>

\* one promise of the batch settles
Settle ==
    /\ pc = "batch"
    /\ \E k \in inFlight, prices \in FetchResults :
        /\ FetchSettles(Item(k), prices)
        /\ inFlight' = inFlight \ {k}
        /\ settled' = settled \cup {k}
        /\ gotAt' = IF Len(prices) > 0 THEN gotAt \cup {k} ELSE gotAt
        /\ failedInLoop' = IF Len(prices) > 0 THEN failedInLoop
                           ELSE failedInLoop \cup {Item(k)}
    /\ UNCHANGED <<diskVars, snapshot, pc, items, batchSize, startIndex, i,
                   itemsToRetry, retryPos, orderedNewPrices, report, fetchLog, retryLog,
                   stoppedEarly, savedThisRun, lastBatch, loadedPrices, resumedFrom,
                   loopCompleted, failedInRetry, fetchesSinceSleep, readerSaw, aloneVars>>

\* processItems: after await this.processBatch(batch), saveState
Checkpoint ==
    /\ pc = "batch"
    /\ BatchSettled(inFlight)
    /\ stateLastIndex' = NextCursor(startIndex, i, batchSize)
    /\ savedThisRun' = TRUE
    /\ lastBatch' = BatchIndices
    /\ IF i + batchSize < Len(items) - startIndex
       THEN pc' = "sleep" /\ UNCHANGED loopCompleted
       ELSE pc' = "secondPass" /\ loopCompleted' = TRUE
    /\ UNCHANGED <<latest, snapshot, items, batchSize, startIndex, i, inFlight,
                   priceDataByItemHashName, failedItems, itemsToRetry, retryPos,
                   orderedNewPrices, report, fetchLog, retryLog, settled, gotPrices,
                   stoppedEarly, loadedPrices, resumedFrom, gotAt, failedInLoop,
                   failedInRetry, fetchesSinceSleep, readerSaw, aloneVars>>

\* processItems: the rate-limit sleep, then i += batchSize
Sleep ==
    /\ pc = "sleep"
    /\ i' = i + batchSize
    /\ pc' = "loop"
    /\ fetchesSinceSleep' = 0
    /\ UNCHANGED <<diskVars, snapshot, items, batchSize, startIndex, inFlight,
                   priceDataByItemHashName, failedItems, itemsToRetry, retryPos,
                   orderedNewPrices, report, histVars, readerSaw, aloneVars>>

\* processMarketData: if (this.failedItems.length > 0) after processItems returned
SecondPassWanted(failed) == Len(failed) > 0

BeginSecondPass ==
    /\ pc = "secondPass"
    /\ IF SecondPassWanted(failedItems)
       THEN /\ itemsToRetry' = failedItems
            /\ failedItems' = <<>>
            /\ pc' = "retry"
       ELSE /\ pc' = "merge"
            /\ UNCHANGED <<itemsToRetry, failedItems>>
    /\ retryPos' = 1
    /\ UNCHANGED <<diskVars, snapshot, items, batchSize, startIndex, i, inFlight,
                   priceDataByItemHashName, orderedNewPrices, report, histVars,
                   fetchesSinceSleep, readerSaw, aloneVars>>

\* processMarketData: await this.processBatch([item]) for one item of itemsToRetry
RetryItem ==
    /\ pc = "retry"
    /\ retryPos <= Len(itemsToRetry)
    /\ \E prices \in FetchResults :
        /\ FetchSettles(itemsToRetry[retryPos], prices)
        /\ failedInRetry' = IF Len(prices) > 0 THEN failedInRetry
                            ELSE failedInRetry \cup {itemsToRetry[retryPos]}
    /\ retryLog' = Append(retryLog, itemsToRetry[retryPos])
    /\ retryPos' = retryPos + 1
    /\ pc' = IF retryPos = Len(itemsToRetry) THEN "merge" ELSE "retry"
    /\ fetchesSinceSleep' = fetchesSinceSleep + 1
    /\ UNCHANGED <<diskVars, snapshot, items, batchSize, startIndex, i, inFlight,
                   itemsToRetry, orderedNewPrices, report, fetchLog, settled,
                   stoppedEarly, savedThisRun, lastBatch, loadedPrices, resumedFrom,
                   loopCompleted, gotAt, failedInLoop, readerSaw, aloneVars>>

\* processMarketData: loadPrices, the spread and the sort; a store that does not
\* parse makes loadPrices throw, which the catch of processMarketData logs
LoadAndMerge ==
    /\ pc = "merge"
    /\ IF latest.status = "partial"
       THEN /\ pc' = "aborted"
            /\ UNCHANGED <<loadedPrices, orderedNewPrices>>
       ELSE /\ loadedPrices' = LoadPrices
            /\ orderedNewPrices' = MergePrices(LoadPrices, priceDataByItemHashName)
            /\ pc' = "write"
    /\ UNCHANGED <<diskVars, snapshot, items, batchSize, startIndex, i, inFlight,
                   priceDataByItemHashName, failedItems, itemsToRetry, retryPos, report,
                   fetchLog, retryLog, settled, gotPrices, stoppedEarly, savedThisRun,
                   lastBatch, resumedFrom, loopCompleted, gotAt, failedInLoop,
                   failedInRetry, fetchesSinceSleep, readerSaw, aloneVars>>

\* fsPromises.writeFile(latest.json): the file is opened for writing, which truncates it
WriteOpen ==
    /\ pc = "write"
    /\ latest' = [status |-> "partial", data |-> <<>>]
    /\ pc' = "writing"
    /\ UNCHANGED <<stateLastIndex, snapshot, items, batchSize, startIndex, i, inFlight,
                   priceDataByItemHashName, failedItems, itemsToRetry, retryPos,
                   orderedNewPrices, report, histVars, fetchesSinceSleep, readerSaw, aloneVars>>

\* fsPromises.writeFile(latest.json): the text is written and the promise resolves
WriteClose ==
    /\ pc = "writing"
    /\ latest' = [status |-> "complete", data |-> orderedNewPrices]
    /\ pc' = "stats"
    /\ UNCHANGED <<stateLastIndex, snapshot, items, batchSize, startIndex, i, inFlight,
                   priceDataByItemHashName, failedItems, itemsToRetry, retryPos,
                   orderedNewPrices, report, histVars, fetchesSinceSleep, readerSaw, aloneVars>>

\* processMarketData: savePrices and the final statistics
FinalStatistics ==
    /\ pc = "stats"
    /\ snapshot' = orderedNewPrices
    /\ report' = [successCount |-> Cardinality(Keys(priceDataByItemHashName)),
                  failureCount |-> Len(failedItems)]
    /\ pc' = "finished"
    /\ UNCHANGED <<stateLastIndex, latest, items, batchSize, startIndex, i, inFlight,
                   priceDataByItemHashName, failedItems, itemsToRetry, retryPos,
                   orderedNewPrices, histVars, fetchesSinceSleep, readerSaw, aloneVars>>

\* the process is killed: its memory is gone, the files stay as they are
Kill ==
    /\ Running
    /\ pc' = "killed"
    /\ FreshProcess
    /\ UNCHANGED <<diskVars, readerSaw, aloneVars>>

\* another process reads latest.json
ReadLatest ==
    /\ readerSaw' = latest.status
    /\ readerSaw' # readerSaw
    /\ UNCHANGED <<diskVars, procVars, histVars, fetchesSinceSleep, aloneVars>>

NextRun ==
    \/ StartRun
    \/ ResolveCatalog
    \/ TimeBudgetStop
    \/ StartBatch
    \/ Settle
    \/ Checkpoint
    \/ Sleep
    \/ BeginSecondPass
    \/ RetryItem
    \/ LoadAndMerge
    \/ WriteOpen
    \/ WriteClose
    \/ FinalStatistics
    \/ Kill

\* ------------------------------------------------------------- fetchWithRetry
\* a faulty variant: the wait grows linearly
WaitTimeLinear(delay, attempt) == delay * (attempt + 1)

\* const waitTime = delay * Math.pow(2, attempt)
WaitTime(delay, attempt) == delay * 2 ^ attempt

\* a faulty variant: a wait follows the last attempt too
WaitsAfterEveryFailure(attempt, retries) == attempt <= retries

\* if (attempt < retries)
WaitsBeforeRetry(attempt, retries) == attempt < retries

\* for (let attempt = 0; attempt <= retries; attempt++)
LoopContinues(attempt, retries) == attempt <= retries

RetriesArgs == (0..MaxRetriesArg) \cup {MAX_RETRIES}

DelayArgs == (1..MaxDelayArg) \cup {RETRY_DELAY_MS}

InitIdleRetry ==
    /\ rPc = "idle" /\ rRetries = 0 /\ rDelay = 0 /\ rAttempt = 0
    /\ rCalls = 0 /\ rFails = 0 /\ rWaits = <<>> /\ rOutcome = "none"
    /\ rLastError = 0 /\ rThrown = 0

\* a call fetchWithRetry(operation, retries, delay)
RetryCalled(retries, delay) ==
    /\ rPc = "call"
    /\ rRetries = retries
    /\ rDelay = delay
    /\ rAttempt = 0
    /\ rCalls = 0
    /\ rFails = 0
    /\ rWaits = <<>>
    /\ rOutcome = "none"
    /\ rLastError = 0
    /\ rThrown = 0

InitRetry == \E retries \in RetriesArgs, delay \in DelayArgs : RetryCalled(retries, delay)

\* return await operation(): the operation resolves
AttemptReturns ==
    /\ rPc = "call"
    /\ rCalls' = rCalls + 1
    /\ rOutcome' = "value"
    /\ rPc' = "returned"
    /\ UNCHANGED <<rRetries, rDelay, rAttempt, rFails, rWaits, rLastError, rThrown>>

\* attempt++, the loop condition, and after the loop throw lastError
NextAttempt ==
    /\ rAttempt' = rAttempt + 1
    /\ IF LoopContinues(rAttempt + 1, rRetries)
       THEN rPc' = "call" /\ UNCHANGED <<rOutcome, rThrown>>
       ELSE rPc' = "thrown" /\ rOutcome' = "error" /\ rThrown' = rLastError'

\* the operation rejects: the catch block
AttemptThrows ==
    /\ rPc = "call"
    /\ rCalls' = rCalls + 1
    /\ rFails' = rFails + 1
    /\ rLastError' = rCalls + 1
    /\ IF WaitsBeforeRetry(rAttempt, rRetries)
       THEN rPc' = "wait" /\ UNCHANGED <<rAttempt, rOutcome, rThrown>>
       ELSE NextAttempt
    /\ UNCHANGED <<rRetries, rDelay, rWaits>>

\* await new Promise(resolve => setTimeout(resolve, waitTime)), then the next attempt
AttemptWaits ==
    /\ rPc = "wait"
    /\ rWaits' = Append(rWaits, WaitTime(rDelay, rAttempt))
    /\ UNCHANGED <<rRetries, rDelay, rCalls, rFails, rLastError>>
    /\ NextAttempt

OperationSucceeds == AttemptReturns /\ UNCHANGED <<runVars, mergeVars, fetchVars, catalogVars>>

OperationFails == AttemptThrows /\ UNCHANGED <<runVars, mergeVars, fetchVars, catalogVars>>

BackoffWait == AttemptWaits /\ UNCHANGED <<runVars, mergeVars, fetchVars, catalogVars>>

NextRetry ==
    \/ OperationSucceeds
    \/ OperationFails
    \/ BackoffWait

\* ------------------------------------------------------------- fetchPrice
\* what one getItemsPriceHistory gives: the callback's err, a 429, another status
\* that is not 200, a body that does not parse, or a body with its price points
FailureKinds == {"error", "429", "status", "unparsable"}

Responses ==
    {[kind |-> k, prices |-> <<>>] : k \in FailureKinds}
        \cup {[kind |-> "ok", prices |-> p] : p \in FetchResults}

\* a faulty variant: a 429 is taken as a response without data
RejectsBut429(response) == response.kind \notin {"ok", "429"}

\* the operation rejects: reject(err), the 429, the other statuses, the parse error
Rejects(response) == response.kind # "ok"

\* what the operation resolves with: (JSON.parse(body).prices || []).map(...)
ParsedPrices(response) == IF response.kind \in FailureKinds THEN <<>> ELSE response.prices

InitIdleFetch ==
    /\ fPc = "idle" /\ fName = 0 /\ fResponses = <<>> /\ fBody = <<>>
    /\ fResult = <<>> /\ fVia = "none"

\* processBatch([name]) calls fetchPrice(name), which calls fetchWithRetry
InitFetch ==
    /\ fPc = "fetching"
    /\ fName \in ItemNames
    /\ fResponses = <<>>
    /\ fBody = <<>>
    /\ fResult = <<>>
    /\ fVia = "none"
    /\ RetryCalled(MAX_RETRIES, RETRY_DELAY_MS)

\* one attempt of the operation of fetchPrice
Request ==
    /\ fPc = "fetching"
    /\ \E response \in Responses :
        /\ fResponses' = Append(fResponses, response)
        /\ IF Rejects(response)
           THEN AttemptThrows /\ UNCHANGED fBody
           ELSE AttemptReturns /\ fBody' = ParsedPrices(response)
    /\ UNCHANGED <<fPc, fName, fResult, fVia, runVars, mergeVars, catalogVars>>

\* the wait of fetchWithRetry between two attempts
RequestBackoff ==
    /\ fPc = "fetching"
    /\ AttemptWaits
    /\ UNCHANGED <<fetchVars, runVars, mergeVars, catalogVars>>

\* fetchWithRetry(...).catch(error => { ...; return []; })
FetchPriceResolves ==
    /\ fPc = "fetching"
    /\ rPc \in {"returned", "thrown"}
    /\ IF rPc = "returned"
       THEN fResult' = fBody /\ fVia' = "operation"
       ELSE fResult' = <<>> /\ fVia' = "catch"
    /\ fPc' = "resolved"
    /\ UNCHANGED <<fName, fResponses, fBody, runVars, retryVars, mergeVars, catalogVars>>

\* processBatch: the .then of the promise of fetchPrice, and its .catch for a
\* promise that rejects
BatchPromiseSettles ==
    /\ fPc = "resolved"
    /\ IF fVia = "rejected"
       THEN /\ failedItems' = TrackFailed(failedItems, fName)
            /\ UNCHANGED <<priceDataByItemHashName, gotPrices>>
       ELSE FetchSettles(fName, fResult)
    /\ fPc' = "settled"
    /\ UNCHANGED <<diskVars, snapshot, pc, items, batchSize, startIndex, i, inFlight,
                   itemsToRetry, retryPos, orderedNewPrices, report, fetchLog, retryLog,
                   settled, stoppedEarly, savedThisRun, lastBatch, loadedPrices,
                   resumedFrom, loopCompleted, gotAt, failedInLoop, failedInRetry,
                   fetchesSinceSleep, readerSaw, fName, fResponses, fBody, fResult, fVia, retryVars,
                   mergeVars, catalogVars>>

NextFetch ==
    \/ Request
    \/ RequestBackoff
    \/ FetchPriceResolves
    \/ BatchPromiseSettles

\* ------------------------------------------------------------- getAllItemNames
\* an entry of a listing that filter(Boolean) drops
Null == 0

\* what an endpoint's response.json() can be: entries with a market_hash_name, by
\* their name, and falsy entries
Listings == SeqsUpTo(ItemNames \cup {Null}, MaxListing)

\* items.filter(Boolean).map(item => item.market_hash_name)
ItemNamesOf(listing) == SelectSeq(listing, LAMBDA item : item # Null)

\* a faulty variant: the names of a listing go in front of the ones gathered so far
PushInFront(all, names) == names \o all

\* allItems.push(...itemNames)
PushAll(all, names) == all \o names

InitIdleCatalog ==
    /\ cPc = "idle" /\ cEndpoint = 1 /\ cListings = <<>> /\ allItems = <<>>

\* const allItems: string[] = [] and the start of the loop over the endpoints
InitCatalog ==
    /\ cPc = "loop" /\ cEndpoint = 1 /\ cListings = <<>> /\ allItems = <<>>

\* the try block: fetchWithRetry resolves with the endpoint's listing
EndpointListed ==
    /\ cPc = "loop"
    /\ cEndpoint <= NumEndpoints
    /\ \E listing \in Listings :
        /\ allItems' = PushAll(allItems, ItemNamesOf(listing))
        /\ cListings' = Append(cListings, [ok |-> TRUE, items |-> listing])
    /\ cEndpoint' = cEndpoint + 1
    /\ UNCHANGED <<cPc, runVars, retryVars, mergeVars, fetchVars>>

\* the catch block: fetchWithRetry threw after its retries; the loop goes on
EndpointFails ==
    /\ cPc = "loop"
    /\ cEndpoint <= NumEndpoints
    /\ cListings' = Append(cListings, [ok |-> FALSE, items |-> <<>>])
    /\ cEndpoint' = cEndpoint + 1
    /\ UNCHANGED <<cPc, allItems, runVars, retryVars, mergeVars, fetchVars>>

\* return allItems
CatalogReturns ==
    /\ cPc = "loop"
    /\ cEndpoint > NumEndpoints
    /\ cPc' = "returned"
    /\ UNCHANGED <<cEndpoint, cListings, allItems, runVars, retryVars, mergeVars,
                   fetchVars>>

NextCatalog ==
    \/ EndpointListed
    \/ EndpointFails
    \/ CatalogReturns

\* ------------------------------------------------------------- the merge alone
InitIdleMerge ==
    /\ mPc = "idle" /\ mExisting = <<>> /\ mNew = <<>> /\ mOnce = <<>> /\ mTwice = <<>>

\* a persisted store, as the merge writes it, and the results of a run
InitMerge ==
    /\ mPc = "start"
    /\ mExisting \in SortedObjectsOver(1..MaxMergeKeys)
    /\ mNew \in ObjectsOver(1..MaxMergeKeys)
    /\ mOnce = <<>>
    /\ mTwice = <<>>

\* the merge of processMarketData on the store mExisting
MergeOnce ==
    /\ mPc = "start"
    /\ mOnce' = MergePrices(mExisting, mNew)
    /\ mPc' = "once"
    /\ UNCHANGED <<mExisting, mNew, mTwice, runVars, retryVars, fetchVars, catalogVars>>

\* the same results merged into the store the first merge wrote
MergeAgain ==
    /\ mPc = "once"
    /\ mTwice' = MergePrices(mOnce, mNew)
    /\ mPc' = "twice"
    /\ UNCHANGED <<mExisting, mNew, mOnce, runVars, retryVars, fetchVars, catalogVars>>

NextMerge ==
    \/ MergeOnce
    \/ MergeAgain

\* ------------------------------------------------------------- specifications
Init == InitRun /\ InitIdleRetry /\ InitIdleMerge /\ InitIdleFetch /\ InitIdleCatalog

Next == NextRun

Spec == Init /\ [][Next]_vars

\* the runs with a concurrent reader of latest.json
NextReader == NextRun \/ ReadLatest

SpecReader == Init /\ [][NextReader]_vars

\* fetchWithRetry on its own
InitRetryAlone == InitRun /\ InitRetry /\ InitIdleMerge /\ InitIdleFetch /\ InitIdleCatalog

SpecRetry == InitRetryAlone /\ [][NextRetry]_vars

\* the merge on its own
InitMergeAlone == InitRun /\ InitIdleRetry /\ InitMerge /\ InitIdleFetch /\ InitIdleCatalog

SpecMerge == InitMergeAlone /\ [][NextMerge]_vars

\* processBatch of one item, with fetchPrice and its retries
InitFetchAlone == InitRun /\ InitFetch /\ InitIdleMerge /\ InitIdleCatalog

SpecFetch == InitFetchAlone /\ [][NextFetch]_vars

\* getAllItemNames on its own
InitCatalogAlone == InitRun /\ InitIdleRetry /\ InitIdleMerge /\ InitIdleFetch /\ InitCatalog

SpecCatalog == InitCatalogAlone /\ [][NextCatalog]_vars

\* ------------------------------------------------------------- properties
MaxOf(S) == CHOOSE x \in S : \A y \in S : y <= x

IsPrefix(a, b) == Len(a) <= Len(b) /\ \A k \in DOMAIN a : a[k] = b[k]

\* the zero-based indices of catalog[c mod n :], in catalog order
SuffixFrom(c, n) == [k \in 1..(n - (c % n)) |-> (c % n) + k - 1]

\* the store a kill leaves behind holds the summary the run computed for the name
PersistedSummaryAfter(name) ==
    /\ latest'.status = "complete"
    /\ HasKey(latest'.data, name)
    /\ Get(latest'.data, name) = Get(priceDataByItemHashName, name)

\* C1: whenever the process is killed during a run, every item that the cursor
\* persisted in this run has passed and whose fetch returned prices either has its
\* summary in the persisted store or is an item of the slice the next run takes from
\* the persisted cursor.
C1_KillLosesAtMostOneBatch ==
    [][(Running /\ pc' = "killed" /\ savedThisRun) =>
          \A k \in gotAt :
              k < stateLastIndex' =>
                  \/ PersistedSummaryAfter(Item(k))
                  \/ \E j \in 0..(Len(items) - 1) :
                        /\ j >= ResumeIndex(stateLastIndex', Len(items))
                        /\ Item(j) = Item(k)]_vars

\* C2: the cursor is persisted for a batch only after every fetch of the batch has
\* settled: at every point of a run no fetch in flight lies before the index a run
\* resumed from the persisted cursor starts at, and every index the cursor persisted
\* in this run has passed has a settled fetch.
C2_CursorNeverPassesUnsettledFetch ==
    items # <<>> =>
        /\ \A k \in inFlight : k >= (stateLastIndex % Len(items))
        /\ savedThisRun =>
              /\ lastBatch \subseteq settled
              /\ \A k \in 0..(Len(items) - 1) :
                    (startIndex <= k /\ k < stateLastIndex) => k \in settled

\* C2's case: the cursor was persisted for a settled batch of two and a fetch of the
\* next batch is in flight
C2_Witness ==
    /\ pc = "batch"
    /\ savedThisRun
    /\ Cardinality(lastBatch) = 2
    /\ inFlight # {}

C4_ResumeFetchesTheSuffix ==
    (items # <<>> /\ pc # "resolve") =>
        LET suffix == SuffixFrom(resumedFrom, Len(items))
        IN /\ IsPrefix(fetchLog, suffix)
           /\ loopCompleted => fetchLog = suffix
           /\ \A k \in DOMAIN retryLog : \E j \in Range(suffix) : Item(j) = retryLog[k]

\* C4's case: a run resumed from a cursor inside the catalog has completed its loop
\* over a suffix of two items or more
C4_Witness ==
    /\ loopCompleted
    /\ (resumedFrom % Len(items)) > 0
    /\ Len(fetchLog) >= 2

\* C5: when the batch loop stops on the time budget, no failed item is fetched again
\* in that run.
C5_NoSecondPassAfterEarlyStop == stoppedEarly => retryLog = <<>>

\* C6: when a run finishes, every item whose fetch failed in the batch loop and again
\* in the second pass is absent from the result map and counted in the reported
\* failure count, and every item of which a fetch returned prices is in the result map.
C6_FinalResultMap ==
    pc = "finished" =>
        \A name \in ItemNames :
            /\ (name \in failedInLoop /\ name \in failedInRetry) =>
                  /\ ~HasKey(priceDataByItemHashName, name)
                  /\ Includes(failedItems, name)
                  /\ report.failureCount = Len(failedItems)
            /\ name \in gotPrices => HasKey(priceDataByItemHashName, name)

\* C7: the merge removes no key of the persisted store: after the write, every key of
\* the store the run loaded is in the persisted store, with its old value when the
\* run has no new result for it.
C7_MergeKeepsExistingKeys ==
    pc \in {"stats", "finished"} =>
        /\ latest.status = "complete"
        /\ \A key \in Keys(loadedPrices) :
              /\ HasKey(latest.data, key)
              /\ ~HasKey(priceDataByItemHashName, key) =>
                    Get(latest.data, key) = Get(loadedPrices, key)

\* C7's case: a finished run with new results and a stored key it has no result for
C7_Witness ==
    /\ pc = "finished"
    /\ priceDataByItemHashName # <<>>
    /\ Keys(loadedPrices) \ Keys(priceDataByItemHashName) # {}

\* C8: merging the same results into the store twice gives the store that merging
\* them once gives.
C8_MergeIdempotent == mPc = "twice" => mTwice = mOnce

\* C8's case: results not in key order that overwrite a stored value with another
C8_Witness ==
    /\ mPc = "twice"
    /\ ~IsSortedObject(mNew)
    /\ \E key \in Keys(mExisting) \cap Keys(mNew) : Get(mExisting, key) # Get(mNew, key)

\* C9: a concurrent reader of latest.json never observes a partially written file.
C9_ReaderNeverSeesPartialFile == readerSaw # "partial"

\* C10: when the operation fails K times and then succeeds, K <= retries,
\* fetchWithRetry returns the value after K + 1 attempts and K waits, the wait after
\* the failed attempt a (from zero) being delay * 2^a.
C10_SuccessAfterKFailures ==
    rPc = "returned" =>
        /\ rOutcome = "value"
        /\ rFails <= rRetries
        /\ rCalls = rFails + 1
        /\ Len(rWaits) = rFails
        /\ \A a \in 0..(rFails - 1) : rWaits[a + 1] = rDelay * 2 ^ a

\* C10's case: the operation failed on every attempt but the last one allowed
C10_Witness ==
    /\ rPc = "returned"
    /\ rFails = rRetries
    /\ rFails >= 3

\* C11: when the operation fails on every attempt, fetchWithRetry calls it exactly
\* retries + 1 times, waits after every failed attempt but the last, retries times in
\* all, and then throws the error of the last attempt.
C11_AlwaysFailingOperation ==
    /\ rPc = "thrown" =>
          /\ rOutcome = "error"
          /\ rFails = rCalls
          /\ rCalls = rRetries + 1
          /\ Len(rWaits) = rRetries
          /\ rThrown = rCalls
    /\ (rPc # "idle" /\ rFails = rRetries + 1) => rPc = "thrown"

\* C11's case: the default three retries are used up and the fourth error is thrown
C11_Witness ==
    /\ rPc = "thrown"
    /\ rRetries = MAX_RETRIES
    /\ rCalls = 4
    /\ Len(rWaits) = 3

\* the attempts of fetchPrice have ended and its promise has settled
FetchPriceDone == fPc \in {"resolved", "settled"}

AllAttemptsFailed ==
    /\ Len(fResponses) = MAX_RETRIES + 1
    /\ \A k \in DOMAIN fResponses : fResponses[k].kind \in FailureKinds

\* C12, as stated: when every attempt of fetchPrice fails, the promise fetchPrice
\* returned is rejected, and processBatch records the name in failedItems.
C12_FailurePropagates ==
    (FetchPriceDone /\ AllAttemptsFailed) =>
        /\ fVia = "rejected"
        /\ fPc = "settled" => Includes(failedItems, fName)

\* C12, amended: when every attempt of fetchPrice fails, whatever the kinds of the
\* failures, fetchPrice does not reject: after MAX_RETRIES + 1 attempts its promise
\* resolves with an empty list of prices, and processBatch records the name in
\* failedItems, stores no price for it and fulfils.
C12_FailureBecomesEmptyResult ==
    /\ (fPc = "fetching" /\ rPc = "thrown") => AllAttemptsFailed
    /\ (FetchPriceDone /\ AllAttemptsFailed) =>
          /\ rPc = "thrown"
          /\ rCalls = MAX_RETRIES + 1
          /\ fVia = "catch"
          /\ fResult = <<>>
          /\ fPc = "settled" =>
                /\ Includes(failedItems, fName)
                /\ ~HasKey(priceDataByItemHashName, fName)
                /\ fName \notin gotPrices

\* C12's case: the four attempts failed in the four ways and processBatch has settled
C12_Witness ==
    /\ fPc = "settled"
    /\ AllAttemptsFailed
    /\ {fResponses[k].kind : k \in DOMAIN fResponses} = FailureKinds

\* C13: a 429 is not turned into an empty result before the retries are used up:
\* when an attempt of fetchPrice got a 429, fetchPrice resolves either with the
\* prices parsed from the response of a later attempt that succeeded, or, when all
\* MAX_RETRIES + 1 attempts failed, with the empty list.
C13_NoEmptyResultFrom429 ==
    (FetchPriceDone /\ \E k \in DOMAIN fResponses : fResponses[k].kind = "429") =>
        LET last == fResponses[Len(fResponses)]
        IN IF last.kind = "ok"
           THEN fVia = "operation" /\ fResult = last.prices
           ELSE fVia = "catch" /\ fResult = <<>> /\ AllAttemptsFailed

\* C13's case: three attempts got a 429 and the last one allowed got prices
C13_Witness ==
    /\ FetchPriceDone
    /\ Len(fResponses) = MAX_RETRIES + 1
    /\ \A k \in 1..MAX_RETRIES : fResponses[k].kind = "429"
    /\ fResponses[MAX_RETRIES + 1].kind = "ok"
    /\ fResult # <<>>

\* the names of the listings that were fetched, in the order of the endpoints
RECURSIVE NamesOfListed(_)
NamesOfListed(listings) ==
    IF listings = <<>> THEN <<>>
    ELSE (IF listings[1].ok
          THEN SelectSeq(listings[1].items, LAMBDA item : item # Null)
          ELSE <<>>) \o NamesOfListed(Tail(listings))

FailedEndpoints == {k \in DOMAIN cListings : ~cListings[k].ok}

\* C14: when exactly one endpoint fails after its retries and the others are fetched,
\* getAllItemNames returns the names of the other listings, concatenated in the
\* order of the endpoints, and the list is not empty when one of these listings has
\* a name.
C14_OneEndpointFails ==
    (cPc = "returned" /\ Cardinality(FailedEndpoints) = 1) =>
        /\ Len(cListings) = NumEndpoints
        /\ allItems = NamesOfListed(cListings)
        /\ (\E k \in DOMAIN cListings, j \in 1..MaxListing :
               j <= Len(cListings[k].items) /\ cListings[k].items[j] # Null)
              => allItems # <<>>

\* C14's case: an endpoint between two endpoints that list different names fails
C14_Witness ==
    /\ cPc = "returned"
    /\ FailedEndpoints = {2}
    /\ cListings[1].items = <<1>>
    /\ cListings[3].items = <<2, Null>>
    /\ allItems = <<1, 2>>

\* C15: the list getAllItemNames returns holds no name twice.
C15_CatalogHasNoDuplicates ==
    cPc = "returned" =>
        \A j, k \in DOMAIN allItems : allItems[j] = allItems[k] => j = k

\* C16: at every point of a run at most batchSize fetches have been started since the
\* last rate-limit sleep (or since the start of the run), in the batch loop and in
\* the second pass alike.
C16_RateCeiling == fetchesSinceSleep <= batchSize

\* C17: when getAllItemNames returns an empty catalog the run ends there, before the
\* batch loop: no fetch has been started, neither the cursor nor the price files are
\* written, and nothing follows in this process.
C17_EmptyCatalogAborts ==
    [][/\ (pc = "resolve" /\ pc' # "killed" /\ items' = <<>>) =>
             /\ pc' = "aborted"
             /\ UNCHANGED <<stateLastIndex, latest, snapshot>>
             /\ ~savedThisRun'
             /\ fetchLog' = <<>>
             /\ retryLog' = <<>>
             /\ inFlight' = {}
             /\ fetchesSinceSleep' = 0
       /\ (pc = "aborted" /\ items = <<>>) =>
             /\ pc' = "resolve"
             /\ UNCHANGED <<stateLastIndex, latest>>]_vars

\* C17's case: a run that found a cursor and a store aborted on an empty catalog
C17_Witness ==
    /\ pc = "aborted"
    /\ items = <<>>
    /\ stateLastIndex > 0
    /\ latest.status = "complete"
    /\ latest.data # <<>>

\* C18: when the time budget is found used up at the top of a batch, the cursor
\* persisted is the catalog index of the first item of that batch, which no fetch of
\* the run has reached, and the batch loop starts no further fetch; the budget is
\* checked nowhere else: a batch that has started is not stopped, it is left only
\* when all its fetches have settled.
C18_StopAtBatchBoundary ==
    [][/\ stoppedEarly' =>
             /\ stateLastIndex' = startIndex' + i'
             /\ i' = Len(fetchLog')
             /\ \A k \in Range(fetchLog') : k < stateLastIndex'
             /\ fetchLog' = fetchLog
             /\ inFlight' = {}
             /\ settled' = Range(fetchLog')
             /\ pc' \notin {"loop", "batch", "sleep"}
       /\ (pc = "batch" /\ pc' # "killed") =>
             /\ ~stoppedEarly'
             /\ inFlight # {} => pc' = "batch"]_vars

\* C18's case: a run resumed inside the catalog is stopped after its first batch
C18_Witness ==
    /\ stoppedEarly
    /\ startIndex > 0
    /\ i > 0
    /\ startIndex + i < Len(items)

\* how many times the run has handed the name to fetchPrice
TimesFetched(name) ==
    Cardinality({k \in DOMAIN fetchLog : Item(fetchLog[k]) = name})
        + Cardinality({k \in DOMAIN retryLog : retryLog[k] = name})

\* C19: in a run whose batch loop has completed, once the second pass is over every
\* name that was in failedItems at the end of the loop has been fetched exactly once
\* more, no other name has, nothing is fetched after that, and so no name has been
\* handed to fetchPrice more than twice in the run.
C19_AtMostTwoFetches ==
    (loopCompleted /\ pc \in {"merge", "write", "writing", "stats", "finished"}) =>
        /\ Range(itemsToRetry) = failedInLoop
        /\ \A name \in ItemNames :
              /\ Cardinality({k \in DOMAIN retryLog : retryLog[k] = name})
                    = (IF name \in failedInLoop THEN 1 ELSE 0)
              /\ TimesFetched(name) <= 2

\* a step of the run before the merge or after it
RunGoesOn ==
    \/ ResolveCatalog \/ TimeBudgetStop \/ StartBatch \/ Settle \/ Checkpoint \/ Sleep
    \/ BeginSecondPass \/ RetryItem \/ WriteOpen \/ WriteClose \/ FinalStatistics

\* the names whose every fetch of this run returned no prices
FailedThisRun == (failedInLoop \cup failedInRetry) \ gotPrices

\* C20: the failure of an item never ends the run: with a catalog that is not empty,
\* whatever the fetches return, the run always has a next step up to the merge, the
\* merge is the only step that can abort it, and only on a store that cannot be read;
\* after the merge it always has a next step up to its end, and in the store it has
\* written every item whose fetches all failed has the entry it had in the store the
\* run loaded, or none if it had none.
C20_ItemFailureNotFatal ==
    /\ (Running /\ pc # "merge") => ENABLED RunGoesOn
    /\ pc = "aborted" => (items = <<>> \/ latest.status = "partial")
    /\ pc \in {"stats", "finished"} =>
          /\ latest.status = "complete"
          /\ \A name \in FailedThisRun :
                IF HasKey(loadedPrices, name)
                THEN /\ HasKey(latest.data, name)
                     /\ Get(latest.data, name) = Get(loadedPrices, name)
                ELSE ~HasKey(latest.data, name)

\* C20's case: a finished run with new prices and an item of the store that failed
\* in the batch loop and in the second pass
C20_Witness ==
    /\ pc = "finished"
    /\ priceDataByItemHashName # <<>>
    /\ \E name \in FailedThisRun :
          /\ name \in failedInLoop \cap failedInRetry
          /\ HasKey(loadedPrices, name)
====
